---- MODULE Spec2Model ----
(***************************************************************************)
(* Model of build_health.py: the build-event reader                        *)
(* (read_build_event_protocol), the grouping of targets by package, the    *)
(* package forest (build_package_forest), the bottom-up aggregation        *)
(* (compute_counts), the report (print_forest) and the overall percentage. *)
(*                                                                         *)
(* A Python str is a TLA+ string; a value that may be None is a sequence   *)
(* of length 0 (None) or 1 (the str).  A dict is a function together with  *)
(* the sequence of its keys in insertion order.  The launcher              *)
(* (attempt_build, argparse, time.sleep) is outside the model: the model   *)
(* starts where the event file is opened.                                  *)
(***************************************************************************)
EXTENDS Integers, Sequences, FiniteSets, TLC

\* Largest number of records in the event file.
MaxEvents == 4

\* Target labels that occur in the event file.  "foo" has no ':'.
Labels == {"//a:x", "//a:y", "//a/b:z", "//ab:w", "foo"}

\* failureDetail messages that occur in the event file.
Messages == {"boom", "success"}

\* Code points of the characters of the package keys (Python compares str
\* by code point).
CodePoint ==
  [c \in {"/", ":", "a", "b", "f", "o", "w", "x", "y", "z"} |->
     CASE c = "/" -> 47 [] c = ":" -> 58 [] c = "a" -> 97 [] c = "b" -> 98
       [] c = "f" -> 102 [] c = "o" -> 111 [] c = "w" -> 119
       [] c = "x" -> 120 [] c = "y" -> 121 [] c = "z" -> 122]

None == <<>>
Str(s) == <<s>>

-----------------------------------------------------------------------------
(* Python str helpers *)

\* str.startswith
StartsWith(s, p) == Len(p) <= Len(s) /\ SubSeq(s, 1, Len(p)) = p

\* a < b on str: the shorter is smaller when it is a prefix of the other,
\* otherwise the first differing character decides.
StrLess(a, b) ==
  LET m == IF Len(a) < Len(b) THEN Len(a) ELSE Len(b)
      diff == {i \in 1..m : SubSeq(a, i, i) # SubSeq(b, i, i)}
  IN  IF diff = {} THEN Len(a) < Len(b)
      ELSE LET i == CHOOSE j \in diff : \A k \in diff : j <= k
           IN  CodePoint[SubSeq(a, i, i)] < CodePoint[SubSeq(b, i, i)]

\* sorted(S) for a set S of distinct str
RECURSIVE SortedStrs(_)
SortedStrs(S) ==
  IF S = {} THEN <<>>
  ELSE LET m == CHOOSE x \in S : \A y \in S \ {x} : StrLess(x, y)
       IN  <<m>> \o SortedStrs(S \ {m})

\* re.search(r"^(.*?):", target): the positions of ':' in the label
ColonPositions(target) == {i \in 1..Len(target) : SubSeq(target, i, i) = ":"}

HasPackage(target) == ColonPositions(target) # {}

\* match.group(1): the text before the first ':'
get_package(target) ==
  LET i == CHOOSE j \in ColonPositions(target) :
              \A k \in ColonPositions(target) : j <= k
  IN  SubSeq(target, 1, i - 1)

-----------------------------------------------------------------------------
(* Event records: one JSON object per line of the event file *)

\* A record whose id names neither targetConfigured nor targetCompleted.
NoFields ==
  [aborted |-> FALSE, hasCompleted |-> FALSE, hasSuccess |-> FALSE,
   success |-> FALSE, hasFailureDetail |-> FALSE, message |-> ""]

\* The result fields a targetCompleted record may carry:
\* "aborted" (presence only) and "completed" {success?, failureDetail?}.
CompletedFields ==
  { [aborted |-> ab, hasCompleted |-> hc, hasSuccess |-> hs, success |-> su,
     hasFailureDetail |-> hf, message |-> m] :
      ab \in BOOLEAN, hc \in BOOLEAN, hs \in BOOLEAN, su \in BOOLEAN,
      hf \in BOOLEAN, m \in Messages \cup {""} }

\* Well-formed result fields: absent parts carry no value.
WellFormed(f) ==
  /\ f.hasSuccess => f.hasCompleted
  /\ f.hasFailureDetail => f.hasCompleted
  /\ f.success => f.hasSuccess
  /\ (f.message # "") <=> f.hasFailureDetail
  \* an aborted record carries at most {"completed": {"success": true}}
  /\ f.aborted => (~f.hasFailureDetail /\ (f.hasCompleted => f.success))
  \* a failureDetail comes with "success": false or, once, with true
  /\ f.hasFailureDetail => (f.hasSuccess /\ (f.success => f.message = "boom"))

Fields == {f \in CompletedFields : WellFormed(f)}

\* The id of a record names one kind of event.
Records ==
  { [kind |-> "targetConfigured", label |-> l, fields |-> NoFields] : l \in Labels }
  \cup { [kind |-> "targetCompleted", label |-> l, fields |-> f] :
           l \in Labels, f \in Fields }
  \cup { [kind |-> "progress", label |-> "", fields |-> NoFields] }

NoRecord == [kind |-> "", label |-> "", fields |-> NoFields]

\* str(bep_contents["completed"]): the repr of the dict
StrCompleted(f) ==
  "{"
  \o (IF f.hasSuccess
        THEN "'success': " \o (IF f.success THEN "True" ELSE "False")
        ELSE "")
  \o (IF f.hasSuccess /\ f.hasFailureDetail THEN ", " ELSE "")
  \o (IF f.hasFailureDetail
        THEN "'failureDetail': {'message': '" \o f.message \o "'}"
        ELSE "")
  \o "}"

\* str(bep_contents) of a targetCompleted record without result fields
StrRecord(r) == "{'id': {'targetCompleted': {'label': '" \o r.label \o "'}}}"

\* Faulty variant of ResolveOutcome: the completed field is looked at before the
\* aborted field.
ResolveOutcome_CompletedFirst(r) ==
  IF r.fields.hasCompleted
    THEN IF r.fields.hasSuccess /\ r.fields.success THEN "success"
         ELSE IF r.fields.aborted THEN "aborted"
         ELSE IF r.fields.hasFailureDetail THEN r.fields.message
         ELSE StrCompleted(r.fields)
  ELSE IF r.fields.aborted THEN "aborted"
  ELSE StrRecord(r)

\* The outcome a targetCompleted record resolves to.
ResolveOutcome(r) ==
  IF r.fields.aborted THEN "aborted"
  ELSE IF r.fields.hasCompleted
    THEN IF r.fields.hasSuccess /\ r.fields.success THEN "success"
         ELSE IF r.fields.hasFailureDetail THEN r.fields.message
         ELSE StrCompleted(r.fields)
  ELSE StrRecord(r)

\* Which branch of the resolution a record takes (history only).
ResolveBranch(r) ==
  IF r.fields.aborted THEN "aborted"
  ELSE IF r.fields.hasCompleted
    THEN IF r.fields.hasSuccess /\ r.fields.success THEN "success"
         ELSE IF r.fields.hasFailureDetail THEN "failureDetail"
         ELSE "strCompleted"
  ELSE "strRecord"

-----------------------------------------------------------------------------
(* PackageTreeNode and the forest: nodes live in an arena, a node is named *)
(* by its index, children and roots are lists of indices.                  *)

PackageTreeNode(package, depth) ==
  [package |-> package, depth |-> depth, children |-> <<>>,
   package_num_successes |-> 0, package_num_targets |-> 0,
   subtree_num_successes |-> 0, subtree_num_targets |-> 0]

\* Index of the first element of list lst (of node indices) whose package
\* is a prefix of key; 0 when there is none.
FirstPrefix(ns, lst, key) ==
  LET hits == {i \in 1..Len(lst) : StartsWith(key, ns[lst[i]].package)}
  IN  IF hits = {} THEN 0 ELSE CHOOSE i \in hits : \A j \in hits : i <= j

RECURSIVE insert_node_into_tree(_, _, _)
\* Faulty variant of insert_node_into_tree: the node is attached to the root that
\* absorbed it, without descending into the matching child.
insert_node_into_tree_NoDescent(ns, root, node) ==
  [ns EXCEPT ![node].depth = ns[root].depth + 1,
             ![root].children = Append(@, node)]

insert_node_into_tree(ns, root, node) ==
  LET i == FirstPrefix(ns, ns[root].children, ns[node].package)
  IN  IF i # 0
        THEN insert_node_into_tree(ns, ns[root].children[i], node)
        ELSE [ns EXCEPT ![node].depth = ns[root].depth + 1,
                        ![root].children = Append(@, node)]

\* Returns the new root list and the new arena.
insert_node_into_forest(roots, ns, node) ==
  LET i == FirstPrefix(ns, roots, ns[node].package)
  IN  IF i # 0
        THEN [roots |-> roots, nodes |-> insert_node_into_tree(ns, roots[i], node)]
        ELSE [roots |-> Append(roots, node),
              nodes |-> [ns EXCEPT ![node].depth = 0]]

RECURSIVE SumSeq(_)
SumSeq(q) == IF q = <<>> THEN 0 ELSE Head(q) + SumSeq(Tail(q))

\* Faulty variant of NumSuccesses: every target with an outcome counts.
NumSuccesses_AnyOutcome(targets, outs) ==
  Cardinality({i \in 1..Len(targets) : outs[targets[i]] # None})

\* sum(outcomes[t] == "success" for t in targets)
NumSuccesses(targets, outs) ==
  Cardinality({i \in 1..Len(targets) : outs[targets[i]] = Str("success")})

\* targets_from_package is a defaultdict(list)
TargetsOf(targets_from_package, package) ==
  IF package \in DOMAIN targets_from_package
    THEN targets_from_package[package] ELSE <<>>

RECURSIVE compute_counts(_, _, _, _)
RECURSIVE CountChildren(_, _, _, _)
\* the loop over node.children: compute_counts on each child in turn
CountChildren(ns, children, targets_from_package, outs) ==
  IF children = <<>> THEN ns
  ELSE CountChildren(compute_counts(ns, Head(children), targets_from_package, outs),
                     Tail(children), targets_from_package, outs)

\* Faulty variant of compute_counts: the subtree counts leave the children out.
compute_counts_OwnOnly(ns, node, targets_from_package, outs) ==
  LET ns1 == CountChildren(ns, ns[node].children, targets_from_package, outs)
      targets == TargetsOf(targets_from_package, ns1[node].package)
      nt == Len(targets)
      nsucc == NumSuccesses(targets, outs)
  IN  [ns1 EXCEPT ![node].package_num_targets = nt,
                  ![node].package_num_successes = nsucc,
                  ![node].subtree_num_targets = nt,
                  ![node].subtree_num_successes = nsucc]

compute_counts(ns, node, targets_from_package, outs) ==
  LET ns1 == CountChildren(ns, ns[node].children, targets_from_package, outs)
      kids == ns1[node].children
      subtree_number_of_targets ==
        SumSeq([i \in 1..Len(kids) |-> ns1[kids[i]].subtree_num_targets])
      subtree_number_of_successes ==
        SumSeq([i \in 1..Len(kids) |-> ns1[kids[i]].subtree_num_successes])
      targets == TargetsOf(targets_from_package, ns1[node].package)
      nt == Len(targets)
      nsucc == NumSuccesses(targets, outs)
  IN  [ns1 EXCEPT ![node].package_num_targets = nt,
                  ![node].package_num_successes = nsucc,
                  ![node].subtree_num_targets = subtree_number_of_targets + nt,
                  ![node].subtree_num_successes = subtree_number_of_successes + nsucc]

\* sorted(lst, key=lambda x: x.package) for a list of node indices
RECURSIVE SortedNodes(_, _)
SortedNodes(ns, S) ==
  IF S = {} THEN <<>>
  ELSE LET m == CHOOSE x \in S :
                  \A y \in S \ {x} : ~StrLess(ns[y].package, ns[x].package)
       IN  <<m>> \o SortedNodes(ns, S \ {m})

SeqRange(q) == {q[i] : i \in 1..Len(q)}

\* "|" * depth, the part of the indentation that varies (a fixed branch
\* character follows it)
RECURSIVE Bars(_)
Bars(depth) == IF depth = 0 THEN "" ELSE "|" \o Bars(depth - 1)

\* The package line of a node; the percentage is printed from these counts.
PackageLine(n) ==
  [kind |-> "Package", indentation |-> Bars(n.depth), text |-> n.package,
   outcome |-> None, successes |-> n.package_num_successes,
   targets |-> n.package_num_targets]

TargetLine(n, t, outs) ==
  [kind |-> "Target", indentation |-> Bars(n.depth), text |-> t,
   outcome |-> outs[t], successes |-> 0, targets |-> 0]

\* Whether the loop over the package's targets runs at all.
ListsTargets(exp, individual) == exp /\ individual

\* Whether target t gets a line inside that loop.
ListsTarget(o, exp) == (o = Str("success") /\ exp) \/ o # Str("success")

\* The target lines printed under a node's package line.
TargetLines(n, package_to_target, outs, individual, exp) ==
  IF ListsTargets(exp, individual)
    THEN LET ts == TargetsOf(package_to_target, n.package)
         IN  [j \in 1..Cardinality({i \in 1..Len(ts) : ListsTarget(outs[ts[i]], exp)}) |->
                LET idx == CHOOSE i \in 1..Len(ts) :
                             /\ ListsTarget(outs[ts[i]], exp)
                             /\ Cardinality({k \in 1..i : ListsTarget(outs[ts[k]], exp)}) = j
                IN  TargetLine(n, ts[idx], outs)]
    ELSE <<>>

\* f"{overall_percentage:.2f}" in hundredths of a percent, rounded to nearest
Percent2f(successes, total) == (2 * 10000 * successes + total) \div (2 * total)

-----------------------------------------------------------------------------
(* The run *)

VARIABLES
  pc,                \* where the run is: "read", "group", "forest", "counts",
                     \* "print", "done", "error"
  err,               \* the exception that ended the run, "" if none
  expand,            \* args.expand, by its truth value
  nread,             \* number of lines of the event file consumed
  bep_contents,      \* the record just read (NoRecord outside the reader)
  outcomes,          \* label -> None or str  (outcomes / outcome_of)
  outcome_keys,      \* the labels of outcomes in insertion order
  configured,        \* history: labels of the targetConfigured records read
  last_completed,    \* history: label -> branch taken by its last
                     \* targetCompleted record
  package_to_targets,\* package key -> list of labels
  print_individual_targets,
  package_lst,       \* package keys build_package_forest has yet to insert
  nodes,             \* the arena of PackageTreeNode
  all_roots,         \* the list of root nodes
  counted,           \* number of roots compute_counts has been called on
  print_roots,       \* sorted roots print_forest has yet to be called on
  in_print_forest,   \* TRUE inside a call of print_forest
  queue,             \* print_forest's queue
  output,            \* the lines printed so far
  overall            \* the overall percentage printed, None before

vars == <<pc, err, expand, nread, bep_contents, outcomes, outcome_keys,
          configured, last_completed, package_to_targets,
          print_individual_targets, package_lst, nodes, all_roots, counted,
          print_roots, in_print_forest, queue, output, overall>>

readerVars == <<nread, bep_contents, outcomes, outcome_keys, configured,
                last_completed>>
groupVars == <<package_to_targets, print_individual_targets, package_lst>>
forestVars == <<nodes, all_roots>>
printVars == <<print_roots, in_print_forest, queue, output>>

EmptyMap == [x \in {} |-> None]

Init ==
  /\ pc = "read"
  /\ err = ""
  /\ expand \in BOOLEAN
  /\ nread = 0
  /\ bep_contents = NoRecord
  /\ outcomes = EmptyMap
  /\ outcome_keys = <<>>
  /\ configured = {}
  /\ last_completed = EmptyMap
  /\ package_to_targets = EmptyMap
  /\ print_individual_targets = FALSE
  /\ package_lst = <<>>
  /\ nodes = <<>>
  /\ all_roots = <<>>
  /\ counted = 0
  /\ print_roots = <<>>
  /\ in_print_forest = FALSE
  /\ queue = <<>>
  /\ output = <<>>
  /\ overall = None

\* d[k] = v on a dict d
SetItem(d, k, v) == [x \in DOMAIN d \cup {k} |-> IF x = k THEN v ELSE d[x]]

\* What a targetConfigured record stores for its label.
ConfiguredOutcome(outs, label) == None

\* One line of the event file: a targetConfigured record.
ReadConfigured(r) ==
  /\ pc = "read" /\ nread < MaxEvents
  /\ r.kind = "targetConfigured"
  /\ nread' = nread + 1
  /\ bep_contents' = r
  /\ outcomes' = SetItem(outcomes, r.label, ConfiguredOutcome(outcomes, r.label))
  /\ outcome_keys' = IF r.label \in DOMAIN outcomes THEN outcome_keys
                     ELSE Append(outcome_keys, r.label)
  /\ configured' = configured \cup {r.label}
  /\ UNCHANGED <<pc, err, expand, last_completed, groupVars, forestVars,
                 counted, printVars, overall>>

\* Faulty variant of NotSeenBefore: a completion of an unknown label is accepted.
NotSeenBefore_Never(outs, label) == FALSE

\* Whether a targetCompleted record for label is refused.
NotSeenBefore(outs, label) == label \notin DOMAIN outs

\* One line of the event file: a targetCompleted record.
ReadCompleted(r) ==
  /\ pc = "read" /\ nread < MaxEvents
  /\ r.kind = "targetCompleted"
  /\ nread' = nread + 1
  /\ bep_contents' = r
  /\ IF NotSeenBefore(outcomes, r.label)
       THEN /\ pc' = "error"
            /\ err' = "RuntimeError: Haven't seen this target before"
            /\ UNCHANGED <<outcomes, last_completed>>
       ELSE /\ outcomes' = SetItem(outcomes, r.label, Str(ResolveOutcome(r)))
            /\ last_completed' = SetItem(last_completed, r.label, ResolveBranch(r))
            /\ UNCHANGED <<pc, err>>
  /\ UNCHANGED <<expand, outcome_keys, configured, groupVars, forestVars,
                 counted, printVars, overall>>

\* One line of the event file: a record of another kind.
ReadOther(r) ==
  /\ pc = "read" /\ nread < MaxEvents
  /\ r.kind \notin {"targetConfigured", "targetCompleted"}
  /\ nread' = nread + 1
  /\ bep_contents' = r
  /\ UNCHANGED <<pc, err, expand, outcomes, outcome_keys, configured,
                 last_completed, groupVars, forestVars, counted, printVars,
                 overall>>

\* End of the event file: read_build_event_protocol returns outcomes.
EndOfFile ==
  /\ pc = "read"
  /\ pc' = "group"
  /\ bep_contents' = NoRecord
  /\ UNCHANGED <<err, expand, nread, outcomes, outcome_keys, configured,
                 last_completed, groupVars, forestVars, counted, printVars,
                 overall>>

\* The targets of outcome_of whose package is key, in insertion order.
RECURSIVE TargetsWithPackage(_, _)
TargetsWithPackage(keys, key) ==
  IF keys = <<>> THEN <<>>
  ELSE (IF get_package(Head(keys)) = key THEN <<Head(keys)>> ELSE <<>>)
       \o TargetsWithPackage(Tail(keys), key)

\* The grouping loop, print_individual_targets and sorted(keys).
GroupByPackage ==
  /\ pc = "group"
  /\ IF \E i \in 1..Len(outcome_keys) : ~HasPackage(outcome_keys[i])
       THEN /\ pc' = "error"
            /\ err' = "RuntimeError: Error parsing package"
            /\ UNCHANGED groupVars
       ELSE LET keys == {get_package(outcome_keys[i]) : i \in 1..Len(outcome_keys)}
            IN  /\ package_to_targets' =
                     [k \in keys |-> TargetsWithPackage(outcome_keys, k)]
                /\ print_individual_targets' = (Cardinality(keys) <= 1)
                /\ package_lst' = SortedStrs(keys)
                /\ pc' = "forest"
                /\ UNCHANGED err
  /\ UNCHANGED <<expand, readerVars, forestVars, counted, printVars, overall>>

\* One iteration of build_package_forest's loop.
InsertPackage ==
  /\ pc = "forest" /\ package_lst # <<>>
  /\ LET n == Len(nodes) + 1
         ns == Append(nodes, PackageTreeNode(Head(package_lst), 0))
         res == insert_node_into_forest(all_roots, ns, n)
     IN  /\ nodes' = res.nodes
         /\ all_roots' = res.roots
  /\ package_lst' = Tail(package_lst)
  /\ UNCHANGED <<pc, err, expand, readerVars, package_to_targets,
                 print_individual_targets, counted, printVars, overall>>

\* build_package_forest returns.
ForestBuilt ==
  /\ pc = "forest" /\ package_lst = <<>>
  /\ pc' = "counts"
  /\ UNCHANGED <<err, expand, readerVars, groupVars, forestVars, counted,
                 printVars, overall>>

\* One iteration of "for r in all_roots: compute_counts(...)".
CountRoot ==
  /\ pc = "counts" /\ counted < Len(all_roots)
  /\ nodes' = compute_counts(nodes, all_roots[counted + 1], package_to_targets,
                             outcomes)
  /\ counted' = counted + 1
  /\ UNCHANGED <<pc, err, expand, readerVars, groupVars, all_roots, printVars,
                 overall>>

\* The counting loop ends; the roots are sorted for printing.
CountsDone ==
  /\ pc = "counts" /\ counted = Len(all_roots)
  /\ pc' = "print"
  /\ print_roots' = SortedNodes(nodes, SeqRange(all_roots))
  /\ UNCHANGED <<err, expand, readerVars, groupVars, forestVars, counted,
                 in_print_forest, queue, output, overall>>

\* print_forest is called on the next root: queue = [r].
PrintForestCall ==
  /\ pc = "print" /\ ~in_print_forest /\ print_roots # <<>>
  /\ in_print_forest' = TRUE
  /\ queue' = <<Head(print_roots)>>
  /\ print_roots' = Tail(print_roots)
  /\ UNCHANGED <<pc, err, expand, readerVars, groupVars, forestVars, counted,
                 output, overall>>

\* Faulty variant of Shown: the package's own fraction decides, not the subtree's.
Shown_OwnFraction(n, exp) ==
  n.package_num_successes < n.package_num_targets \/ exp

\* Whether print_forest prints the node it has taken from the queue.
Shown(n, exp) == n.subtree_num_successes < n.subtree_num_targets \/ exp

\* One iteration of print_forest's while loop.
PrintNode ==
  /\ pc = "print" /\ in_print_forest /\ queue # <<>>
  /\ LET node == nodes[Head(queue)]
     IN  IF node.subtree_num_targets = 0
              \/ (Shown(node, expand) /\ node.package_num_targets = 0)
           THEN /\ pc' = "error"
                /\ err' = "ZeroDivisionError"
                /\ queue' = Tail(queue)
                /\ UNCHANGED output
           ELSE IF Shown(node, expand)
             THEN /\ output' = Append(output, PackageLine(node))
                                \o TargetLines(node, package_to_targets, outcomes,
                                               print_individual_targets, expand)
                  /\ queue' = SortedNodes(nodes, SeqRange(node.children))
                              \o Tail(queue)
                  /\ UNCHANGED <<pc, err>>
             ELSE /\ queue' = Tail(queue)
                  /\ UNCHANGED <<pc, err, output>>
  /\ UNCHANGED <<expand, readerVars, groupVars, forestVars, counted,
                 print_roots, in_print_forest, overall>>

\* print_forest returns when its queue is empty.
PrintForestReturn ==
  /\ pc = "print" /\ in_print_forest /\ queue = <<>>
  /\ in_print_forest' = FALSE
  /\ UNCHANGED <<pc, err, expand, readerVars, groupVars, forestVars, counted,
                 print_roots, queue, output, overall>>

\* The overall percentage, after the last root.
PrintOverall ==
  /\ pc = "print" /\ ~in_print_forest /\ print_roots = <<>>
  /\ IF Len(outcome_keys) = 0
       THEN /\ pc' = "error"
            /\ err' = "ZeroDivisionError"
            /\ UNCHANGED overall
       ELSE /\ overall' = Str(Percent2f(NumSuccesses(outcome_keys, outcomes),
                                         Len(outcome_keys)))
            /\ pc' = "done"
            /\ UNCHANGED err
  /\ UNCHANGED <<expand, readerVars, groupVars, forestVars, counted, printVars>>

Next ==
  \/ \E r \in Records : ReadConfigured(r)
  \/ \E r \in Records : ReadCompleted(r)
  \/ \E r \in Records : ReadOther(r)
  \/ EndOfFile
  \/ GroupByPackage
  \/ InsertPackage
  \/ ForestBuilt
  \/ CountRoot
  \/ CountsDone
  \/ PrintForestCall
  \/ PrintNode
  \/ PrintForestReturn
  \/ PrintOverall

Spec == Init /\ [][Next]_vars

-----------------------------------------------------------------------------
(* build_package_forest on its own: the run from the point where the      *)
(* package keys have been grouped and sorted, for every small set of keys *)
(* over the characters '/' and 'a' (the empty key included).              *)

\* Largest number of package keys in a forest.
MaxKeys == 4

RECURSIVE KeysOfLen(_)
KeysOfLen(n) ==
  IF n = 0 THEN {""}
  ELSE {k \o c : k \in KeysOfLen(n - 1), c \in {"/", "a"}}

\* The package keys forests are built from: every str of at most three
\* characters over '/' and 'a'.
KeyUniverse == KeysOfLen(0) \cup KeysOfLen(1) \cup KeysOfLen(2) \cup KeysOfLen(3)

\* The state after the grouping of one pending target "<key>:t" per key.
InitForest ==
  \E S \in {T \in SUBSET KeyUniverse : Cardinality(T) <= MaxKeys} :
    LET keys == SortedStrs(S)
        labels == [i \in 1..Len(keys) |-> keys[i] \o ":t"]
    IN  /\ pc = "forest"
        /\ err = ""
        /\ expand = FALSE
        /\ nread = Len(keys)
        /\ bep_contents = NoRecord
        /\ outcomes = [l \in SeqRange(labels) |-> None]
        /\ outcome_keys = labels
        /\ configured = SeqRange(labels)
        /\ last_completed = EmptyMap
        /\ package_to_targets = [k \in S |-> <<k \o ":t">>]
        /\ print_individual_targets = (Cardinality(S) <= 1)
        /\ package_lst = keys
        /\ nodes = <<>>
        /\ all_roots = <<>>
        /\ counted = 0
        /\ print_roots = <<>>
        /\ in_print_forest = FALSE
        /\ queue = <<>>
        /\ output = <<>>
        /\ overall = None

NextForest == InsertPackage \/ ForestBuilt

SpecForest == InitForest /\ [][NextForest]_vars

-----------------------------------------------------------------------------
(* Notions the properties are stated with *)

NodeIds == 1..Len(nodes)

Kids(i) == SeqRange(nodes[i].children)

RECURSIVE Descendants(_)
Descendants(i) == Kids(i) \cup UNION {Descendants(c) : c \in Kids(i)}

Ancestors(i) == {m \in NodeIds : i \in Descendants(m)}

\* How often node i occurs in list lst.
Occurrences(lst, i) == Cardinality({k \in 1..Len(lst) : lst[k] = i})

\* How often node i is attached: as a root or as a child of some node.
Attachments(i) ==
  Occurrences(all_roots, i)
  + SumSeq([m \in NodeIds |-> Occurrences(nodes[m].children, i)])

\* The keys build_package_forest has inserted so far.
InsertedKeys == DOMAIN package_to_targets \ SeqRange(package_lst)

\* compute_counts has run on every root.
Aggregated == pc \in {"print", "done"}

SuccessLabels == {l \in DOMAIN outcomes : outcomes[l] = Str("success")}

RootTargets == SumSeq([i \in 1..Len(all_roots) |-> nodes[all_roots[i]].subtree_num_targets])
RootSuccesses == SumSeq([i \in 1..Len(all_roots) |-> nodes[all_roots[i]].subtree_num_successes])

\* Number of package lines printed for key.
PackageLines(key) ==
  Cardinality({k \in 1..Len(output) :
                 output[k].kind = "Package" /\ output[k].text = key})

\* Whether a target line was printed for label t.
HasTargetLine(t) ==
  \E k \in 1..Len(output) :
     /\ output[k].kind = "Target"
     /\ output[k].text = t
     /\ output[k].outcome = outcomes[t]

\* The step consumes one line of the event file.
ReadsRecord == nread' = nread + 1

-----------------------------------------------------------------------------
(* Properties *)

\* C1: in single-package mode, whenever a package's line is printed, every
\* target of that package whose outcome is not success has a Target line,
\* whatever expand is, and a target whose outcome is success has one exactly
\* when expand is true.
C1_FailuresListedRegardlessOfExpand ==
  \A key \in DOMAIN package_to_targets :
    (print_individual_targets /\ PackageLines(key) > 0) =>
      \A t \in SeqRange(package_to_targets[key]) :
        /\ outcomes[t] # Str("success") => HasTargetLine(t)
        /\ outcomes[t] = Str("success") => (HasTargetLine(t) <=> expand)

\* C2: a targetConfigured record for a label that is already registered
\* leaves the outcome map unchanged; for a new label it registers the label
\* as pending and changes nothing else.
C2_ConfiguredKeepsOutcome ==
  [][(ReadsRecord /\ bep_contents'.kind = "targetConfigured") =>
       IF bep_contents'.label \in DOMAIN outcomes
         THEN outcomes' = outcomes
         ELSE outcomes' = SetItem(outcomes, bep_contents'.label, None)]_vars

\* C3: the forest holds each inserted key as exactly one node, attached
\* exactly once; for distinct nodes n and m, n is a descendant of m exactly
\* when n's key starts with m's key; a child's key starts with its parent's;
\* no two siblings and no two roots are prefix-related; a node's depth is
\* the number of its ancestors.
C3_ForestIsPrefixOrder ==
  /\ {nodes[i].package : i \in NodeIds} = InsertedKeys
  /\ \A i, j \in NodeIds : i # j => nodes[i].package # nodes[j].package
  /\ \A i \in NodeIds : Attachments(i) = 1
  /\ \A n, m \in NodeIds :
       n # m => (n \in Descendants(m)
                   <=> StartsWith(nodes[n].package, nodes[m].package))
  /\ \A m \in NodeIds : \A c \in Kids(m) :
       StartsWith(nodes[c].package, nodes[m].package)
  /\ \A m \in NodeIds : \A c, d \in Kids(m) :
       c # d => ~StartsWith(nodes[c].package, nodes[d].package)
  /\ \A c, d \in SeqRange(all_roots) :
       c # d => ~StartsWith(nodes[c].package, nodes[d].package)
  /\ \A n \in NodeIds : nodes[n].depth = Cardinality(Ancestors(n))

\* C3 witness: a finished forest with two roots and a node two levels down.
C3_Witness ==
  /\ pc = "counts"
  /\ Len(all_roots) >= 2
  /\ \E n \in NodeIds : nodes[n].depth = 2

\* C4: after aggregation the roots' subtree_num_targets add up to the number
\* of targets in the outcome map, the roots' subtree_num_successes to the
\* number of targets whose outcome is success, and the overall percentage
\* printed is the one of these two sums.
C4_RootSumsAreTotals ==
  Aggregated =>
    /\ RootTargets = Cardinality(DOMAIN outcomes)
    /\ RootSuccesses = Cardinality(SuccessLabels)
    /\ pc = "done" => overall = Str(Percent2f(RootSuccesses, RootTargets))

\* C4 witness: a finished run with two roots, one built and one not: 50.00%.
C4_Witness ==
  /\ pc = "done"
  /\ Len(all_roots) = 2
  /\ RootSuccesses = 1
  /\ RootTargets = 2
  /\ overall = Str(5000)

\* C5: after aggregation, every node's subtree counts are its package counts
\* plus its children's subtree counts, and its subtree successes do not
\* exceed its subtree targets.
C5_SubtreeCounts ==
  Aggregated =>
    \A i \in NodeIds :
      LET kids == nodes[i].children
      IN  /\ nodes[i].subtree_num_targets =
               nodes[i].package_num_targets
               + SumSeq([k \in 1..Len(kids) |-> nodes[kids[k]].subtree_num_targets])
          /\ nodes[i].subtree_num_successes =
               nodes[i].package_num_successes
               + SumSeq([k \in 1..Len(kids) |-> nodes[kids[k]].subtree_num_successes])
          /\ nodes[i].subtree_num_successes <= nodes[i].subtree_num_targets

\* C5 witness: an aggregated node with a child, a success of its own and a
\* success below it.
C5_Witness ==
  /\ Aggregated
  /\ \E i \in NodeIds :
       /\ Len(nodes[i].children) = 1
       /\ nodes[i].package_num_successes = 1
       /\ nodes[i].subtree_num_successes = 2
       /\ nodes[i].subtree_num_targets = 2

\* C6: a targetCompleted record for a registered label stores: "aborted" if
\* it has an aborted field; else "success" if completed.success is true;
\* else the failureDetail message if completed has one; else the str of
\* completed; else (no completed) the str of the record.  No other label
\* changes.  A record of another kind changes nothing.
C6_OutcomePriority ==
  [][ReadsRecord =>
      LET r == bep_contents'
          f == r.fields
      IN  /\ (r.kind = "targetCompleted" /\ r.label \in DOMAIN outcomes) =>
               /\ f.aborted => outcomes'[r.label] = Str("aborted")
               /\ (~f.aborted /\ f.hasCompleted /\ f.hasSuccess /\ f.success) =>
                    outcomes'[r.label] = Str("success")
               /\ (~f.aborted /\ f.hasCompleted /\ ~(f.hasSuccess /\ f.success)
                     /\ f.hasFailureDetail) =>
                    outcomes'[r.label] = Str(f.message)
               /\ (~f.aborted /\ f.hasCompleted /\ ~(f.hasSuccess /\ f.success)
                     /\ ~f.hasFailureDetail) =>
                    outcomes'[r.label] = Str(StrCompleted(f))
               /\ (~f.aborted /\ ~f.hasCompleted) =>
                    outcomes'[r.label] = Str(StrRecord(r))
               /\ DOMAIN outcomes' = DOMAIN outcomes
               /\ \A l \in DOMAIN outcomes \ {r.label} : outcomes'[l] = outcomes[l]
          /\ r.kind \notin {"targetConfigured", "targetCompleted"} =>
               /\ outcomes' = outcomes
               /\ outcome_keys' = outcome_keys
               /\ pc' = pc]_vars

\* C6 witness: a record with both aborted and completed.success = true has
\* been stored as "aborted", next to a target stored as the str of its
\* completed object.
C6_Witness ==
  /\ pc = "read"
  /\ bep_contents.kind = "targetCompleted"
  /\ bep_contents.fields.aborted
  /\ bep_contents.fields.success
  /\ outcomes[bep_contents.label] = Str("aborted")
  /\ \E l \in DOMAIN outcomes : outcomes[l] = Str("{'success': False}")

\* C7: reading a record ends the run with the "haven't seen this target"
\* error exactly when the record is a targetCompleted whose label no earlier
\* targetConfigured record named; the failing record registers nothing, and
\* nothing happens after an error.
C7_UnconfiguredCompletionFails ==
  [][/\ pc # "error"
     /\ ReadsRecord =>
          /\ pc' = "error" <=>
               (bep_contents'.kind = "targetCompleted"
                  /\ bep_contents'.label \notin configured)
          /\ pc' = "error" =>
               /\ err' = "RuntimeError: Haven't seen this target before"
               /\ outcomes' = outcomes
               /\ outcome_keys' = outcome_keys]_vars

\* C7 witness: the run stopped on a completion of an unconfigured label
\* after other labels had been configured and completed.
C7_Witness ==
  /\ pc = "error"
  /\ err = "RuntimeError: Haven't seen this target before"
  /\ bep_contents.kind = "targetCompleted"
  /\ bep_contents.label \notin DOMAIN outcomes
  /\ DOMAIN last_completed # {}

\* C8: no node's package line is printed twice, and when the report is
\* finished every node whose subtree is not fully successful, and with
\* expand every node, has exactly one package line, and every other node
\* has none.
C8_PrintedIffIncompleteOrExpand ==
  /\ \A i \in NodeIds : PackageLines(nodes[i].package) <= 1
  /\ pc = "done" =>
       \A i \in NodeIds :
         PackageLines(nodes[i].package) =
           IF nodes[i].subtree_num_successes < nodes[i].subtree_num_targets \/ expand
             THEN 1 ELSE 0

\* C8 witness: without expand, a finished report that skipped a fully
\* successful node and printed an incomplete node at depth 1.
C8_Witness ==
  /\ pc = "done"
  /\ ~expand
  /\ \E i, j \in NodeIds :
       /\ nodes[i].subtree_num_successes = nodes[i].subtree_num_targets
       /\ PackageLines(nodes[i].package) = 0
       /\ nodes[j].depth = 1
       /\ nodes[j].subtree_num_successes < nodes[j].subtree_num_targets
       /\ PackageLines(nodes[j].package) = 1

\* C9: the run never divides by zero: no ZeroDivisionError, every aggregated
\* node has package_num_targets >= 1 and subtree_num_targets >=
\* package_num_targets, and the outcome map is not empty when the overall
\* percentage is computed.
C9_NoDivisionByZero ==
  /\ err # "ZeroDivisionError"
  /\ Aggregated =>
       \A i \in NodeIds :
         /\ nodes[i].package_num_targets >= 1
         /\ nodes[i].subtree_num_targets >= nodes[i].package_num_targets
  /\ (pc = "print" /\ ~in_print_forest /\ print_roots = <<>>) =>
       Len(outcome_keys) # 0

\* C10: a target counts as a success only if its last targetCompleted record
\* took the success branch (no aborted field, completed.success true): in
\* the outcome map, in every node's package_num_successes, in the roots'
\* subtree_num_successes and in the overall percentage.
GenuineSuccesses ==
  {l \in DOMAIN outcomes :
     l \in DOMAIN last_completed /\ last_completed[l] = "success"}

C10_OnlyGenuineSuccessCounts ==
  /\ SuccessLabels \subseteq GenuineSuccesses
  /\ Aggregated =>
       /\ \A i \in NodeIds :
            nodes[i].package_num_successes <=
              Cardinality(GenuineSuccesses
                            \cap SeqRange(TargetsOf(package_to_targets,
                                                    nodes[i].package)))
       /\ RootSuccesses <= Cardinality(GenuineSuccesses)
  /\ pc = "done" =>
       overall[1] <= Percent2f(Cardinality(GenuineSuccesses), Len(outcome_keys))

====
